---- MODULE Spec2Model ----
(***************************************************************************)
(* A model of django_q/models.py (the Task table and its TaskManager, the  *)
(* Cluster and Worker registry, the OrmQ queue table, the Schedule table)  *)
(* and of django_q/signals.py (the post_save receiver call_hook).          *)
(*                                                                         *)
(* The Task table is a function from primary keys to rows.  Every          *)
(* operation records its outcome in `ret`, so that what a call returned    *)
(* or raised can be stated as a state predicate.                           *)
(***************************************************************************)
EXTENDS Integers, Sequences, FiniteSets, Bags, TLC

VARIABLES
    tasks,      \* the Task table: primary key -> row
    hookCalls,  \* per task id: how often a hook callable was invoked for it
    ret,        \* the last operation: its name, arguments and outcome
    clusters,   \* the Cluster table: the set of primary keys
    workers,    \* the Worker table: primary key -> row
    ormq,       \* the OrmQ table: primary key -> row
    ormqSeq,    \* the last primary key the OrmQ table gave out
    held,       \* per polling worker: the OrmQ row its last claim returned
    now,        \* the clock
    schedules,  \* the Schedule table: primary key -> row
    fires       \* per schedule: how often it has fired

registryVars == <<clusters, workers>>

queueVars == <<ormq, ormqSeq, held>>

schedVars == <<schedules, fires>>

vars == <<tasks, hookCalls, ret, clusters, workers, ormq, ormqSeq, held, now,
          schedules, fires>>

----------------------------------------------------------------------------
(* Bounds and input sets                                                   *)

\* Number of distinct task ids of the store specifications.
MaxTasks == 2

\* Number of distinct task ids of the hook specification.
MaxHookTasks == 1

\* Cap on the number of hook invocations counted per task.
MaxHookCalls == 4

\* get_task compares len(task_id) with this (Task.id has max_length 32).
IdLen == 32

\* SQL NULL / Python None in a nullable column.
NULL == "NULL"

\* The value a Python call returns when it falls off its end.
None == [isNone |-> TRUE]

\* Primary keys.  The second is shorter than IdLen: Task.id is a CharField
\* of max_length 32, not of fixed length.
IdPool ==
    << "0123456789abcdef0123456789abcdef",
       "short",
       "fedcba9876543210fedcba9876543210",
       "00000000000000000000000000000000" >>

Ids == {IdPool[k] : k \in 1..MaxTasks}

HookIds == {IdPool[k] : k \in 1..MaxHookTasks}

AllIds == Ids \cup HookIds

\* Task.name is not unique and may spell another task's id.
Names == {"dup", IdPool[1]}

Groups == {"g1", "g2"}

GroupValues == Groups \cup {NULL}

Results == {"r1"}

\* Arguments of get_task / get_result.
QueryKeys == AllIds \cup Names \cup {"nomatch"}

STATUS_CHOICES == {"pending", "running", "success", "failed"}

Terminal == {"success", "failed"}

\* The columns class Task declares.
TaskFields ==
    {"id", "name", "func", "hook", "args", "kwargs", "result", "group",
     "cluster_type", "created_time", "start_time", "duration", "status",
     "attempt_count"}

----------------------------------------------------------------------------
(* Outcomes of a call                                                      *)

Returned(v) == [outcome |-> "returned", value |-> v, exc |-> NULL]

Raised(e) == [outcome |-> "raised", value |-> None, exc |-> e]

----------------------------------------------------------------------------
(* The ORM's querysets over the Task table                                 *)

\* self.get_queryset(): every row.
AllTasks == [ok |-> TRUE, ids |-> DOMAIN tasks, exc |-> NULL]

\* qs.filter(field=value): a keyword that is no column of Task raises
\* FieldError when the filter is built.
Filter(qs, field, value) ==
    IF ~qs.ok THEN qs
    ELSE IF field \notin TaskFields
         THEN [ok |-> FALSE, ids |-> {}, exc |-> "FieldError"]
         ELSE [ok |-> TRUE,
               ids |-> {i \in qs.ids : tasks[i][field] = value},
               exc |-> NULL]

Exists(qs) == qs.ids # {}

Count(qs) == Cardinality(qs.ids)

GetFirstMatch(qs) ==
    IF qs.ids = {} THEN Raised("DoesNotExist")
    ELSE Returned(tasks[CHOOSE i \in qs.ids : TRUE])

\* qs.get(): exactly one row, else DoesNotExist / MultipleObjectsReturned.
Get(qs) ==
    IF Cardinality(qs.ids) = 1 THEN Returned(tasks[CHOOSE i \in qs.ids : TRUE])
    ELSE IF qs.ids = {} THEN Raised("DoesNotExist")
    ELSE Raised("MultipleObjectsReturned")

\* qs.values_list("result", flat=True): the results of the rows, as a bag.
ValuesListResult(qs) ==
    [r \in {tasks[i].result : i \in qs.ids} |->
        Cardinality({i \in qs.ids : tasks[i].result = r})]

----------------------------------------------------------------------------
(* TaskManager                                                             *)

get_task_NoLenCheck(task_id) ==
    IF Exists(Filter(AllTasks, "id", task_id))
    THEN Get(Filter(AllTasks, "id", task_id))
    ELSE IF Exists(Filter(AllTasks, "name", task_id))
         THEN Get(Filter(AllTasks, "name", task_id))
         ELSE Returned(None)

get_task(task_id) ==
    IF Len(task_id) = IdLen /\ Exists(Filter(AllTasks, "id", task_id))
    THEN Get(Filter(AllTasks, "id", task_id))
    ELSE IF Exists(Filter(AllTasks, "name", task_id))
         THEN Get(Filter(AllTasks, "name", task_id))
         ELSE Returned(None)

get_result_NoneSafe(task_id) ==
    LET t == get_task(task_id)
    IN  IF t.outcome = "raised" THEN t
        ELSE IF t.value = None THEN Returned(NULL)
        ELSE Returned(t.value.result)

\* self.get_task(task_id).result: None has no attribute result.
get_result(task_id) ==
    LET t == get_task(task_id)
    IN  IF t.outcome = "raised" THEN t
        ELSE IF t.value = None THEN Raised("AttributeError")
        ELSE Returned(t.value.result)

get_group_tasks(group_id, failures) ==
    LET qs == Filter(AllTasks, "group", group_id)
    IN  IF failures THEN Filter(qs, "success", FALSE) ELSE qs

get_group_count(group_id, failures) ==
    LET qs == get_group_tasks(group_id, failures)
    IN  IF qs.ok THEN Returned(Count(qs)) ELSE Raised(qs.exc)

\* decode_results returns the values unchanged on every Django but 1.7.
get_group_results(group_id, failures) ==
    LET qs == get_group_tasks(group_id, failures)
    IN  IF qs.ok THEN Returned(ValuesListResult(qs)) ELSE Raised(qs.exc)

delete_group_EveryRow(group_id, cascade) ==
    IF cascade
    THEN [table |-> [i \in {} |-> tasks[i]], res |-> Returned(None)]
    ELSE [table |-> [i \in DOMAIN tasks |-> [tasks[i] EXCEPT !.group = NULL]],
          res |-> Returned(None)]

\* The table after delete_group, and how the call ended.  get_group_tasks is
\* called with its default failures=True.
delete_group(group_id, cascade) ==
    LET group_qs == get_group_tasks(group_id, TRUE)
    IN  IF ~group_qs.ok
        THEN [table |-> tasks, res |-> Raised(group_qs.exc)]
        ELSE IF cascade
             THEN [table |-> [i \in DOMAIN tasks \ group_qs.ids |-> tasks[i]],
                   res |-> Returned(None)]
             ELSE [table |-> [i \in DOMAIN tasks |->
                                IF i \in group_qs.ids
                                THEN [tasks[i] EXCEPT !.group = NULL]
                                ELSE tasks[i]],
                   res |-> Returned(None)]

----------------------------------------------------------------------------
(* Cluster and Worker                                                      *)

\* Number of distinct Worker ids.
MaxWorkers == 2

ClusterIds == {"c1", "c2"}

WorkerIds == {<<"w", k>> : k \in 1..MaxWorkers}

WorkersAfterTaskDelete_Cascade(table, deleted) ==
    [w \in {x \in DOMAIN table : table[x].task \notin deleted} |-> table[w]]

\* Worker.task = ForeignKey(Task, on_delete=SET_NULL): the Worker table
\* after the Tasks `deleted` are deleted.
WorkersAfterTaskDelete(table, deleted) ==
    [w \in DOMAIN table |->
        IF table[w].task \in deleted
        THEN [table[w] EXCEPT !.task = NULL]
        ELSE table[w]]

\* Worker.cluster = ForeignKey(Cluster, on_delete=CASCADE): the Worker
\* table after Cluster `cluster` is deleted.
WorkersAfterClusterDelete(table, cluster) ==
    [w \in {x \in DOMAIN table : table[x].cluster # cluster} |-> table[w]]

\* SuccessManager.get_queryset() / FailureManager.get_queryset(): the
\* queryset behind the proxy models Success and Failure.
view_queryset(view) ==
    IF view = "Success"
    THEN Filter(AllTasks, "success", TRUE)
    ELSE Filter(AllTasks, "success", FALSE)

\* Success.objects.all() / Failure.objects.all(): the rows of the view.
view_rows(view) ==
    LET qs == view_queryset(view)
    IN  IF qs.ok THEN Returned({tasks[i] : i \in qs.ids}) ELSE Raised(qs.exc)

----------------------------------------------------------------------------
(* Hook references and the objects they resolve to                         *)

\* Python function objects: one that returns and one that raises.
PyFunctions == {"<function ok>", "<function boom>"}

\* The values Task.hook takes: NULL, the empty string, dotted references of
\* every kind import_function distinguishes, and a function object given
\* in place of a reference.
HookValues ==
    {NULL, "", "hooks.ok", "hooks.boom", "nodot", "missing.f",
     "hooks.absent", ".rel.f", "hooks.CONST", "<function ok>"}

TruthyNotNull(v) == v # NULL

\* bool(instance.hook)
Truthy(v) == v # NULL /\ v # ""

callable(f) == f \in PyFunctions

\* django_q.tasks.import_function: split the reference at its last dot,
\* import the module, get the attribute.  A reference without a dot fails
\* with ValueError, an unknown module with ImportError, an unknown
\* attribute with AttributeError, a relative module path with TypeError.
import_function(ref) ==
    CASE ref = "hooks.ok"     -> Returned("<function ok>")
      [] ref = "hooks.boom"   -> Returned("<function boom>")
      [] ref = "hooks.CONST"  -> Returned("<object CONST>")
      [] ref = "nodot"        -> Raised("ValueError")
      [] ref = "missing.f"    -> Raised("ImportError")
      [] ref = "hooks.absent" -> Raised("AttributeError")
      [] OTHER                -> Raised("TypeError")

\* f(instance): what happens in the call.  `invoked` tells whether a
\* callable ran; calling an object that is not callable raises TypeError.
\* What a hook raises is an instance of Exception (RuntimeError here).
Apply(f, instance) ==
    IF ~callable(f)
    THEN [outcome |-> "raised", exc |-> "TypeError", invoked |-> FALSE]
    ELSE IF f = "<function boom>"
         THEN [outcome |-> "raised", exc |-> "RuntimeError", invoked |-> TRUE]
         ELSE [outcome |-> "returned", exc |-> NULL, invoked |-> TRUE]

\* The exception classes of the except clause around import_function.
ImportExcept == {"ValueError", "ImportError", "AttributeError"}

HookOutcome(outcome, exc, invoked, hookRaised, resolving, log) ==
    [outcome |-> outcome, exc |-> exc, invoked |-> invoked,
     hookRaised |-> hookRaised, resolving |-> resolving, log |-> log]

InvokeUncaught(f, instance, resolving) ==
    LET r == Apply(f, instance)
    IN  HookOutcome(r.outcome, r.exc, r.invoked,
                    r.invoked /\ r.outcome = "raised", resolving, NULL)

\* try: f(instance) / except Exception: logger.error(...)
Invoke(f, instance, resolving) ==
    LET r == Apply(f, instance)
    IN  IF r.outcome = "raised"
        THEN HookOutcome("returned", NULL, r.invoked, r.invoked, resolving,
                         "return hook failed")
        ELSE HookOutcome("returned", NULL, r.invoked, FALSE, resolving, NULL)

\* The post_save receiver of Task.
call_hook(instance) ==
    IF ~Truthy(instance.hook)
    THEN HookOutcome("returned", NULL, FALSE, FALSE, FALSE, NULL)
    ELSE LET f == instance.hook
         IN  IF ~callable(f)
             THEN LET imp == import_function(f)
                  IN  IF imp.outcome = "raised"
                      THEN IF imp.exc \in ImportExcept
                           THEN HookOutcome("returned", NULL, FALSE, FALSE,
                                            TRUE, "malformed return hook")
                           ELSE HookOutcome("raised", imp.exc, FALSE, FALSE,
                                            TRUE, NULL)
                      ELSE Invoke(imp.value, instance, TRUE)
             ELSE Invoke(f, instance, FALSE)

----------------------------------------------------------------------------
(* Saving a Task                                                           *)

\* instance.save(): the row is written, then post_save runs call_hook.  An
\* exception of the receiver leaves save() after the row was written.
\* `calls` is the number of hook invocations counted for the row so far.
Save(op, instance, calls) ==
    LET hk == call_hook(instance)
    IN  /\ calls < MaxHookCalls
        /\ tasks' = (instance.id :> instance) @@ tasks
        /\ hookCalls' = [hookCalls EXCEPT
                            ![instance.id] = calls + (IF hk.invoked THEN 1 ELSE 0)]
        /\ ret' = [op |-> op, arg |-> instance.id, instance |-> instance,
                   outcome |-> hk.outcome, exc |-> hk.exc,
                   invoked |-> hk.invoked, hookRaised |-> hk.hookRaised,
                   resolving |-> hk.resolving, log |-> hk.log]

\* A new Task: status takes its default, result is NULL.
CreateTask(id, name, group, hook) ==
    /\ id \notin DOMAIN tasks
    /\ UNCHANGED <<registryVars, queueVars, schedVars, now>>
    /\ Save("create",
            [id |-> id, name |-> name, group |-> group, hook |-> hook,
             status |-> "pending", result |-> NULL],
            0)

\* Any later save of an existing row that changes none of the modelled
\* columns.
ResaveTask(id) ==
    /\ id \in DOMAIN tasks
    /\ UNCHANGED <<registryVars, queueVars, schedVars, now>>
    /\ Save("resave", tasks[id], hookCalls[id])

TransitionsLoose ==
    {<<"pending", "running">>, <<"running", "success">>,
     <<"running", "failed">>, <<"running", "pending">>,
     <<"success", "failed">>}

\* The status changes the task lifecycle permits.
Transitions ==
    {<<"pending", "running">>, <<"running", "success">>,
     <<"running", "failed">>}

\* A worker's attempt to move a task to `status`: applied and saved when the
\* lifecycle permits it, rejected without a save otherwise.
UpdateStatus(id, status, result) ==
    /\ id \in DOMAIN tasks
    /\ UNCHANGED <<registryVars, queueVars, schedVars, now>>
    /\ IF <<tasks[id].status, status>> \in Transitions
       THEN Save("update_status",
                 [tasks[id] EXCEPT
                     !.status = status,
                     !.result = IF status \in Terminal THEN result ELSE @],
                 hookCalls[id])
       ELSE /\ ret' = [op |-> "update_status", arg |-> id,
                       instance |-> [tasks[id] EXCEPT !.status = status],
                       outcome |-> "rejected", exc |-> NULL,
                       invoked |-> FALSE, hookRaised |-> FALSE,
                       resolving |-> FALSE, log |-> NULL]
            /\ UNCHANGED <<tasks, hookCalls>>

----------------------------------------------------------------------------
(* Calls of the TaskManager                                                *)

Query(op, arg, flag, res) ==
    /\ ret' = [op |-> op, arg |-> arg, flag |-> flag, before |-> tasks,
               outcome |-> res.outcome, value |-> res.value, exc |-> res.exc]
    /\ UNCHANGED <<tasks, hookCalls, registryVars, queueVars, schedVars, now>>

GetTask(task_id) == Query("get_task", task_id, FALSE, get_task(task_id))

GetResult(task_id) == Query("get_result", task_id, FALSE, get_result(task_id))

GetGroupCount(group_id, failures) ==
    Query("get_group_count", group_id, failures,
          get_group_count(group_id, failures))

GetGroupResults(group_id, failures) ==
    Query("get_group_results", group_id, failures,
          get_group_results(group_id, failures))

ViewRows(view) == Query("view_rows", view, FALSE, view_rows(view))

DeleteGroup(group_id, cascade) ==
    LET d == delete_group(group_id, cascade)
    IN  /\ tasks' = d.table
        /\ ret' = [op |-> "delete_group", arg |-> group_id, flag |-> cascade,
                   before |-> tasks, outcome |-> d.res.outcome,
                   value |-> d.res.value, exc |-> d.res.exc]
        /\ workers' = WorkersAfterTaskDelete(workers, DOMAIN tasks \ DOMAIN d.table)
        /\ UNCHANGED <<hookCalls, clusters, queueVars, schedVars, now>>

----------------------------------------------------------------------------
(* Operations on the Cluster, Worker and Task tables                       *)

RegistryRet(op, arg) ==
    [op |-> op, arg |-> arg, before |-> tasks, clusters |-> clusters,
     workers |-> workers]

CreateCluster(c) ==
    /\ c \notin clusters
    /\ clusters' = clusters \cup {c}
    /\ ret' = RegistryRet("create_cluster", c)
    /\ UNCHANGED <<tasks, hookCalls, workers, queueVars, schedVars, now>>

\* A new Worker of an existing Cluster, running no Task.
CreateWorker(w, c) ==
    /\ w \notin DOMAIN workers
    /\ c \in clusters
    /\ workers' = (w :> [cluster |-> c, task |-> NULL]) @@ workers
    /\ ret' = RegistryRet("create_worker", w)
    /\ UNCHANGED <<tasks, hookCalls, clusters, queueVars, schedVars, now>>

\* worker.task = t; worker.save(): t is an existing Task or NULL.
SetWorkerTask(w, t) ==
    /\ w \in DOMAIN workers
    /\ t \in DOMAIN tasks \cup {NULL}
    /\ workers' = [workers EXCEPT ![w].task = t]
    /\ ret' = RegistryRet("set_worker_task", w)
    /\ UNCHANGED <<tasks, hookCalls, clusters, queueVars, schedVars, now>>

\* task.delete(): the row goes, the on_delete of Worker.task is applied.
DeleteTask(t) ==
    /\ t \in DOMAIN tasks
    /\ tasks' = [i \in DOMAIN tasks \ {t} |-> tasks[i]]
    /\ workers' = WorkersAfterTaskDelete(workers, {t})
    /\ ret' = RegistryRet("delete_task", t)
    /\ UNCHANGED <<hookCalls, clusters, queueVars, schedVars, now>>

\* cluster.delete(): the row goes, the on_delete of Worker.cluster is
\* applied.
DeleteCluster(c) ==
    /\ c \in clusters
    /\ clusters' = clusters \ {c}
    /\ workers' = WorkersAfterClusterDelete(workers, c)
    /\ ret' = RegistryRet("delete_cluster", c)
    /\ UNCHANGED <<tasks, hookCalls, queueVars, schedVars, now>>

----------------------------------------------------------------------------
(* The broker queue on the OrmQ table                                      *)

\* Number of OrmQ rows ever inserted.
MaxRows == 2

\* Last value of the clock.
MaxTime == 2

\* Age beyond which a lock no longer hides its row (configuration).
ReclaimTimeout == 1

\* NULL in the DateTimeField OrmQ.lock.
NullTime == -1

\* The workers that poll the queue.
Pollers == {"p1", "p2"}

QueueKeys == {"q1", "q2"}

Payloads == {"pkg"}

\* lock is null, or older than the reclaim timeout.
Eligible(row) ==
    \/ row.lock = NullTime
    \/ now - row.lock > ReclaimTimeout

ClaimableRows_IgnoreLock(key) ==
    {r \in DOMAIN ormq : ormq[r].key = key}

\* The rows a claim on `key` may return.
ClaimableRows(key) ==
    {r \in DOMAIN ormq : ormq[r].key = key /\ Eligible(ormq[r])}

\* Oldest row first: the smallest primary key.
Oldest(rows) == CHOOSE r \in rows : \A q \in rows : r <= q

LockRow_Unlocked(row) == row

\* The claimed row, locked "now".
LockRow(row) == [row EXCEPT !.lock = now]

QueueRet(op, arg, value) == [op |-> op, arg |-> arg, value |-> value]

\* enqueue(key, payload): a new row with lock NULL.
Enqueue(key, payload) ==
    /\ ormqSeq < MaxRows
    /\ ormqSeq' = ormqSeq + 1
    /\ ormq' = (ormqSeq' :> [key |-> key, payload |-> payload,
                             lock |-> NullTime]) @@ ormq
    /\ ret' = QueueRet("enqueue", key, ormqSeq')
    /\ UNCHANGED <<tasks, hookCalls, registryVars, held, schedVars, now>>

\* claim(key) by poller p: selection and locking are one step; "empty"
\* when no row is eligible.
Claim(p, key) ==
    /\ held[p] = None
    /\ IF ClaimableRows(key) = {}
       THEN /\ ret' = QueueRet("claim", p, 0)
            /\ UNCHANGED <<ormq, held>>
       ELSE LET r == Oldest(ClaimableRows(key))
            IN  /\ ormq' = [ormq EXCEPT ![r] = LockRow(@)]
                /\ held' = [held EXCEPT ![p] = [row |-> r, at |-> now]]
                /\ ret' = QueueRet("claim", p, r)
    /\ UNCHANGED <<tasks, hookCalls, registryVars, ormqSeq, schedVars, now>>

\* The row p holds is still the one its claim locked.
Owns(p) ==
    /\ held[p] # None
    /\ held[p].row \in DOMAIN ormq
    /\ ormq[held[p].row].lock = held[p].at

\* ack(row) by the poller that claimed it: the row is deleted; a poller
\* whose lock was reclaimed meanwhile is told so and deletes nothing.
Ack(p) ==
    /\ held[p] # None
    /\ IF Owns(p)
       THEN /\ ormq' = [r \in DOMAIN ormq \ {held[p].row} |-> ormq[r]]
            /\ ret' = QueueRet("ack", p, held[p].row)
       ELSE /\ ormq' = ormq
            /\ ret' = QueueRet("ack_not_owned", p, held[p].row)
    /\ held' = [held EXCEPT ![p] = None]
    /\ UNCHANGED <<tasks, hookCalls, registryVars, ormqSeq, schedVars, now>>

\* fail(row, requeue=true): the row is deleted and its payload inserted
\* again with lock NULL.
Requeue(p) ==
    /\ Owns(p)
    /\ ormqSeq < MaxRows
    /\ ormqSeq' = ormqSeq + 1
    /\ ormq' = (ormqSeq' :> [ormq[held[p].row] EXCEPT !.lock = NullTime])
                @@ [r \in DOMAIN ormq \ {held[p].row} |-> ormq[r]]
    /\ held' = [held EXCEPT ![p] = None]
    /\ ret' = QueueRet("requeue", p, ormqSeq')
    /\ UNCHANGED <<tasks, hookCalls, registryVars, schedVars, now>>

\* The poller crashes in mid-task and starts again: no ack, the lock stays.
Crash(p) ==
    /\ held[p] # None
    /\ held' = [held EXCEPT ![p] = None]
    /\ ret' = QueueRet("crash", p, held[p].row)
    /\ UNCHANGED <<tasks, hookCalls, registryVars, ormq, ormqSeq, schedVars, now>>

\* Time passes.
Tick ==
    /\ now < MaxTime
    /\ now' = now + 1
    /\ ret' = QueueRet("tick", NULL, now')
    /\ UNCHANGED <<tasks, hookCalls, registryVars, queueVars, schedVars>>

----------------------------------------------------------------------------
(* Schedules                                                               *)

MaxSchedules == 1

\* Firings of one schedule.
MaxFires == 3

\* Last value of the scheduler's clock, in minutes.
MaxClock == 60

ScheduleIds == 1..MaxSchedules

ONCE == "O"
MINUTES == "I"
CRON == "C"

\* NULL in the PositiveSmallIntegerField Schedule.minutes.
NullMinutes == -1

\* Schedule.minutes, and the steps of the clock.
Minutes == {15, 30}

\* Schedule.repeats: n = n times, -1 = forever.
RepeatValues == {-1, 0, 1, 2}

\* Ids of the Tasks that schedules spawn.
SpawnIdPool ==
    << "a0000000000000000000000000000001", "a0000000000000000000000000000002",
       "a0000000000000000000000000000003", "a0000000000000000000000000000004",
       "a0000000000000000000000000000005", "a0000000000000000000000000000006",
       "a0000000000000000000000000000007", "a0000000000000000000000000000008",
       "a0000000000000000000000000000009", "a000000000000000000000000000000a" >>

SpawnId(s, k) == SpawnIdPool[(s - 1) * MaxFires + k]

\* Cron expressions written into Schedule.cron; the first two are the
\* ones the cron parser accepts.
WellFormedCron == {"* * * * *", "*/15 * * * *"}

CronValues == WellFormedCron \cup {"61 * * * *", "every day", "", NULL}

\* croniter.expand(value): the parser's errors derive from ValueError.
croniter_expand(value) ==
    IF value \in WellFormedCron
    THEN Returned(None)
    ELSE Raised("CroniterBadCronError")

ValueErrors == {"ValueError", "CroniterBadCronError"}

validate_cron(value, croniter) ==
    IF ~croniter
    THEN Raised("ImportError")
    ELSE LET r == croniter_expand(value)
         IN  IF r.outcome = "raised" /\ r.exc \in ValueErrors
             THEN Raised("ValidationError")
             ELSE r

\* Values a field counts as empty.
EmptyValues == {NULL, ""}

\* Cleaning of the cron field: blank=True lets an empty value through
\* without running the validators.
clean_cron(value, croniter) ==
    IF value \in EmptyValues
    THEN Returned(None)
    ELSE validate_cron(value, croniter)

\* now >= next_run and repeats != 0.
Due_IgnoreRepeats(row) == now >= row.next_run

Due(row) ==
    /\ now >= row.next_run
    /\ row.repeats # 0

\* compute_next_run for the minutes type.
compute_next_run(row) == row.next_run + row.minutes

\* A Schedule of type minutes; next_run takes its default, the time of
\* creation.
CreateSchedule(s, m, n) ==
    /\ s \notin DOMAIN schedules
    /\ schedules' = (s :> [schedule_type |-> MINUTES, minutes |-> m,
                           repeats |-> n, next_run |-> now, cron |-> NULL,
                           task |-> NULL]) @@ schedules
    /\ fires' = [fires EXCEPT ![s] = [repeats0 |-> n, next_run0 |-> now,
                                      count |-> 0]]
    /\ ret' = [op |-> "create_schedule", arg |-> s]
    /\ UNCHANGED <<tasks, hookCalls, registryVars, queueVars, now>>

\* A Schedule of type cron written through validation: the row is saved
\* when cleaning its fields raised nothing.
WriteCronSchedule(s, expr, croniter) ==
    LET r == clean_cron(expr, croniter)
    IN  /\ s \notin DOMAIN schedules
        /\ IF r.outcome = "returned"
           THEN schedules' = (s :> [schedule_type |-> CRON,
                                    minutes |-> NullMinutes,
                                    repeats |-> -1, next_run |-> now,
                                    cron |-> expr, task |-> NULL]) @@ schedules
           ELSE schedules' = schedules
        /\ ret' = [op |-> "write_cron", arg |-> s, cron |-> expr,
                   croniter |-> croniter, outcome |-> r.outcome,
                   exc |-> r.exc,
                   validator |-> validate_cron(expr, croniter)]
        /\ UNCHANGED <<tasks, hookCalls, registryVars, queueVars, fires, now>>

\* fire(schedule, now): a new Task, its OrmQ row, schedule.task, repeats
\* and next_run, as one step.
Fire(s) ==
    LET row == schedules[s]
        id  == SpawnId(s, fires[s].count + 1)
    IN  /\ tasks' = (id :> [id |-> id, name |-> "dup", group |-> NULL,
                            hook |-> NULL, status |-> "pending",
                            result |-> NULL]) @@ tasks
        /\ ormqSeq' = ormqSeq + 1
        /\ ormq' = (ormqSeq' :> [key |-> "q1", payload |-> "pkg",
                                 lock |-> NullTime]) @@ ormq
        /\ schedules' = [schedules EXCEPT ![s] =
                            [row EXCEPT
                                !.task = id,
                                !.repeats = IF row.repeats > 0
                                            THEN row.repeats - 1
                                            ELSE row.repeats,
                                !.next_run = compute_next_run(row)]]
        /\ fires' = [fires EXCEPT ![s].count = @ + 1]
        /\ ret' = [op |-> "check", arg |-> s, fired |-> TRUE, at |-> now]
        /\ UNCHANGED <<hookCalls, registryVars, held, now>>

\* The scheduler looks at schedule s: it fires when due.
Check(s) ==
    /\ s \in DOMAIN schedules
    /\ schedules[s].schedule_type = MINUTES
    /\ IF Due(schedules[s])
       THEN /\ fires[s].count < MaxFires
            /\ Fire(s)
       ELSE /\ ret' = [op |-> "check", arg |-> s, fired |-> FALSE, at |-> now]
            /\ UNCHANGED <<tasks, hookCalls, registryVars, queueVars,
                           schedVars, now>>

AdvanceClock(d) ==
    /\ now + d <= MaxClock
    /\ now' = now + d
    /\ ret' = [op |-> "advance", arg |-> d]
    /\ UNCHANGED <<tasks, hookCalls, registryVars, queueVars, schedVars>>

----------------------------------------------------------------------------
(* Specifications                                                          *)

Init ==
    /\ tasks = <<>>
    /\ hookCalls = [i \in AllIds |-> 0]
    /\ ret = [op |-> "init"]
    /\ clusters = {}
    /\ workers = <<>>
    /\ ormq = <<>>
    /\ ormqSeq = 0
    /\ held = [w \in Pollers |-> None]
    /\ now = 0
    /\ schedules = <<>>
    /\ fires = [s \in ScheduleIds |->
                   [repeats0 |-> 0, next_run0 |-> 0, count |-> 0]]

\* Groups and the task lifecycle.
Next ==
    \/ \E i \in Ids, g \in GroupValues : CreateTask(i, "dup", g, NULL)
    \/ \E i \in Ids, st \in STATUS_CHOICES, r \in Results : UpdateStatus(i, st, r)
    \/ \E g \in Groups, f \in BOOLEAN : GetGroupCount(g, f)
    \/ \E g \in Groups, f \in BOOLEAN : GetGroupResults(g, f)
    \/ \E g \in Groups, c \in BOOLEAN : DeleteGroup(g, c)
    \/ \E v \in {"Success", "Failure"} : ViewRows(v)

Spec == Init /\ [][Next]_vars

\* Lookup by id or name.
NextLookup ==
    \/ \E i \in Ids, n \in Names : CreateTask(i, n, NULL, NULL)
    \/ \E i \in Ids, st \in STATUS_CHOICES, r \in Results : UpdateStatus(i, st, r)
    \/ \E x \in QueryKeys : GetTask(x)
    \/ \E x \in QueryKeys : GetResult(x)

SpecLookup == Init /\ [][NextLookup]_vars

\* Saves of tasks that carry a hook.
NextHook ==
    \/ \E i \in HookIds, h \in HookValues : CreateTask(i, "dup", NULL, h)
    \/ \E i \in HookIds, st \in STATUS_CHOICES, r \in Results : UpdateStatus(i, st, r)
    \/ \E i \in HookIds : ResaveTask(i)

SpecHook == Init /\ [][NextHook]_vars

\* Deletions of Tasks and Clusters under the Worker table.
NextRegistry ==
    \/ \E i \in Ids : CreateTask(i, "dup", NULL, NULL)
    \/ \E c \in ClusterIds : CreateCluster(c)
    \/ \E w \in WorkerIds, c \in ClusterIds : CreateWorker(w, c)
    \/ \E w \in WorkerIds, t \in Ids \cup {NULL} : SetWorkerTask(w, t)
    \/ \E i \in Ids : DeleteTask(i)
    \/ \E c \in ClusterIds : DeleteCluster(c)

SpecRegistry == Init /\ [][NextRegistry]_vars

\* The scheduler and the writers of schedules.
NextSchedule ==
    \/ \E s \in ScheduleIds, m \in Minutes, n \in RepeatValues :
          CreateSchedule(s, m, n)
    \/ \E s \in ScheduleIds, e \in CronValues, c \in BOOLEAN :
          WriteCronSchedule(s, e, c)
    \/ \E s \in ScheduleIds : Check(s)
    \/ \E d \in Minutes : AdvanceClock(d)

SpecSchedule == Init /\ [][NextSchedule]_vars

\* Time passes and the scheduler keeps looking at every schedule.
SpecScheduleFair ==
    /\ SpecSchedule
    /\ WF_vars(\E d \in Minutes : AdvanceClock(d))
    /\ \A s \in ScheduleIds : WF_vars(Check(s))

\* Pollers claiming from the queue.
NextQueue ==
    \/ \E k \in QueueKeys, d \in Payloads : Enqueue(k, d)
    \/ \E p \in Pollers, k \in QueueKeys : Claim(p, k)
    \/ \E p \in Pollers : Ack(p)
    \/ \E p \in Pollers : Requeue(p)
    \/ \E p \in Pollers : Crash(p)
    \/ Tick

SpecQueue == Init /\ [][NextQueue]_vars

\* Every queue key keeps being polled, and a poller that holds a row
\* finishes with it or crashes.
SpecQueueFair ==
    /\ SpecQueue
    /\ \A k \in QueueKeys : WF_vars(\E p \in Pollers : Claim(p, k))
    /\ WF_vars(\E p \in Pollers : Ack(p) \/ Crash(p))

----------------------------------------------------------------------------
(* Properties                                                              *)

\* The operations that save a row (an update the lifecycle rejects saves
\* nothing).
Saved ==
    /\ ret.op \in {"create", "resave", "update_status"}
    /\ ret.outcome # "rejected"

\* The ids of the rows of `table` that carry group g.
Members(table, g) == {i \in DOMAIN table : table[i].group = g}

\* A hook value that stands for a callable: a function object, or a
\* reference that resolves to one.
ResolvesToCallable(h) ==
    \/ callable(h)
    \/ /\ Truthy(h)
       /\ import_function(h).outcome = "returned"
       /\ callable(import_function(h).value)

\* A hook value whose resolution fails.
ResolutionFails(h) ==
    /\ Truthy(h)
    /\ ~callable(h)
    /\ import_function(h).outcome = "raised"

\* C1: after delete_group(g, cascade=true) no row of group g remains; after
\* delete_group(g, cascade=false) every row that had group g is still there
\* with group NULL; members of every status are covered.
C1_DeleteGroupCoversAllMembers ==
    ret.op = "delete_group" =>
        IF ret.flag
        THEN Members(tasks, ret.arg) = {}
        ELSE \A i \in Members(ret.before, ret.arg) :
                i \in DOMAIN tasks /\ tasks[i].group = NULL

\* C2: when the hook callable raises during its invocation, call_hook
\* returns normally (nothing escapes the save) and the row stays as saved.
C2_HookExceptionIsolated ==
    (Saved /\ ret.hookRaised) =>
        /\ ret.outcome = "returned"
        /\ ret.arg \in DOMAIN tasks
        /\ tasks[ret.arg] = ret.instance

\* C2 witness: a terminal save whose hook was invoked and raised.
C2_Witness ==
    /\ Saved
    /\ ret.hookRaised
    /\ ret.instance.status \in Terminal
    /\ ret.instance.result # NULL
    /\ ret.outcome = "returned"
    /\ tasks[ret.arg] = ret.instance

\* C3: for a save of a Task whose hook is a callable, the callable is
\* invoked exactly when the saved status is success or failed.
C3_HookOnlyOnTerminalSave ==
    (Saved /\ ResolvesToCallable(ret.instance.hook)) =>
        (ret.invoked <=> ret.instance.status \in Terminal)

\* C4: over the saves of one Task with a hook, the callable is invoked
\* exactly once: not before the record is terminal, once when it is.
C4_HookInvokedExactlyOnce ==
    \A i \in DOMAIN tasks :
        ResolvesToCallable(tasks[i].hook) =>
            hookCalls[i] = (IF tasks[i].status \in Terminal THEN 1 ELSE 0)

\* C5: when the hook reference cannot be resolved, in whatever way the
\* resolution fails, call_hook logs and returns without invoking anything
\* and without raising, and the saved row stays.
C5_ResolutionFailureSwallowed ==
    (Saved /\ ResolutionFails(ret.instance.hook)) =>
        /\ ret.outcome = "returned"
        /\ ~ret.invoked
        /\ ret.log # NULL
        /\ tasks[ret.arg] = ret.instance

\* C6: get_group_count(g, failures=true) <= get_group_count(g,
\* failures=false), and both calls return a count.
C6_FailureCountAtMostCount ==
    ret.op = "get_group_count" =>
        LET f == get_group_count(ret.arg, TRUE)
            a == get_group_count(ret.arg, FALSE)
        IN  /\ f.outcome = "returned"
            /\ a.outcome = "returned"
            /\ f.value <= a.value

\* C7: with failures=false the group queries range over exactly the rows of
\* group g, with failures=true over exactly its rows of status failed.
C7_GroupQueriesRange ==
    ret.op \in {"get_group_count", "get_group_results"} =>
        LET rows == {i \in Members(tasks, ret.arg) :
                        ret.flag => tasks[i].status = "failed"}
        IN  /\ ret.outcome = "returned"
            /\ IF ret.op = "get_group_count"
               THEN ret.value = Cardinality(rows)
               ELSE ret.value =
                        [r \in {tasks[i].result : i \in rows} |->
                            Cardinality({i \in rows : tasks[i].result = r})]

\* C8: get_task(x) returns the Task of id x when x has 32 characters and
\* that Task exists, whatever names other Tasks carry; when x does not have
\* 32 characters a Task is found through its name only.
C8_GetTaskByIdThenName ==
    ret.op = "get_task" =>
        LET x == ret.arg
        IN  /\ (Len(x) = IdLen /\ x \in DOMAIN tasks) =>
                   (ret.outcome = "returned" /\ ret.value = tasks[x])
            /\ (Len(x) # IdLen /\ ret.outcome = "returned"
                    /\ ret.value # None) =>
                   ret.value.name = x
            /\ (Len(x) # IdLen /\ \A i \in DOMAIN tasks : tasks[i].name # x) =>
                   (ret.outcome = "returned" /\ ret.value = None)

\* C8 witness: get_task(x) for a 32-character x that is the id of one Task
\* and the name of another returned the Task of id x.
C8_Witness ==
    /\ ret.op = "get_task"
    /\ Len(ret.arg) = IdLen
    /\ ret.arg \in DOMAIN tasks
    /\ \E j \in DOMAIN tasks : j # ret.arg /\ tasks[j].name = ret.arg
    /\ ret.outcome = "returned"
    /\ ret.value = tasks[ret.arg]

\* The name lookup of get_task(x) is taken and meets several rows.
AmbiguousName ==
    /\ ret.op = "get_task"
    /\ ~(Len(ret.arg) = IdLen /\ ret.arg \in DOMAIN tasks)
    /\ Cardinality({i \in DOMAIN tasks : tasks[i].name = ret.arg}) >= 2

\* C9: a name lookup that meets two or more rows ends in an error, returns
\* none of them and changes no row.
C9_AmbiguousNameIsError ==
    AmbiguousName =>
        /\ ret.outcome = "raised"
        /\ ret.exc = "MultipleObjectsReturned"
        /\ tasks = ret.before

\* C9 witness: such a lookup happened and raised.
C9_Witness == AmbiguousName /\ ret.outcome = "raised"

\* C10: once a Task is success or failed no update changes its status (the
\* attempt is rejected), and a running Task never goes back to pending.
C10_StatusMonotonic ==
    [][/\ \A i \in DOMAIN tasks \cap DOMAIN tasks' :
            /\ tasks[i].status \in Terminal =>
                   tasks'[i].status = tasks[i].status
            /\ tasks[i].status = "running" => tasks'[i].status # "pending"
       /\ (/\ ret'.op = "update_status"
           /\ ret'.arg \in DOMAIN tasks
           /\ tasks[ret'.arg].status \in Terminal) =>
              ret'.outcome = "rejected"]_vars

\* C10 witness: an update of a terminal Task was attempted and rejected.
C10_Witness ==
    /\ ret.op = "update_status"
    /\ ret.outcome = "rejected"
    /\ tasks[ret.arg].status \in Terminal
    /\ ret.instance.status # tasks[ret.arg].status

\* C14: the Success view holds exactly the rows of status success and the
\* Failure view exactly the rows of status failed, as projections of the
\* Task rows; a pending or running Task is in neither, none is in both.
C14_ViewsProjectStatus ==
    ret.op = "view_rows" =>
        /\ ret.outcome = "returned"
        /\ ret.value =
              {tasks[i] : i \in {j \in DOMAIN tasks :
                  tasks[j].status =
                      (IF ret.arg = "Success" THEN "success" ELSE "failed")}}

\* C17: delete_group(g, cascade) leaves every row whose group is not g
\* (NULL included) present and unchanged, for both values of cascade.
C17_DeleteGroupFrame ==
    ret.op = "delete_group" =>
        \A i \in DOMAIN ret.before :
            ret.before[i].group # ret.arg =>
                (i \in DOMAIN tasks /\ tasks[i] = ret.before[i])

\* C17 witness: delete_group(g, ...) ran on a table holding a member of g
\* and a row outside g, and the row outside g is as before.
C17_Witness ==
    /\ ret.op = "delete_group"
    /\ Members(ret.before, ret.arg) # {}
    /\ \E i \in DOMAIN ret.before :
          /\ ret.before[i].group # ret.arg
          /\ i \in DOMAIN tasks
          /\ tasks[i] = ret.before[i]

\* x is neither the id nor the name of a Task.
NoMatch(x) ==
    /\ x \notin DOMAIN tasks
    /\ \A i \in DOMAIN tasks : tasks[i].name # x

\* The rows named x.
Named(x) == {i \in DOMAIN tasks : tasks[i].name = x}

\* C18: when x matches no id and no name, get_task(x) returns None without
\* raising and changes no row, and get_result(x) ends in an error; a
\* 32-character x that is no id but a name is resolved through the name.
C18_NoMatchAndNameFallback ==
    /\ (ret.op = "get_task" /\ NoMatch(ret.arg)) =>
          /\ ret.outcome = "returned"
          /\ ret.value = None
          /\ tasks = ret.before
    /\ (ret.op = "get_result" /\ NoMatch(ret.arg)) =>
          /\ ret.outcome = "raised"
          /\ tasks = ret.before
    /\ (/\ ret.op = "get_task"
        /\ Len(ret.arg) = IdLen
        /\ ret.arg \notin DOMAIN tasks
        /\ Cardinality(Named(ret.arg)) = 1) =>
          /\ ret.outcome = "returned"
          /\ ret.value # None
          /\ ret.value.name = ret.arg

\* C18 witness: get_result(x) for an x that matches nothing, on a table
\* that holds rows, ended in AttributeError.
C18_Witness ==
    /\ ret.op = "get_result"
    /\ NoMatch(ret.arg)
    /\ DOMAIN tasks # {}
    /\ ret.outcome = "raised"
    /\ ret.exc = "AttributeError"

\* C19: a save of a Task whose hook is NULL or empty invokes nothing and
\* resolves nothing, at every status; call_hook leaves the saved row as it
\* was saved on each of its paths.
C19_NoHookNoCall ==
    Saved =>
        /\ ret.instance.hook \in {NULL, ""} =>
              /\ ~ret.invoked
              /\ ~ret.resolving
              /\ ret.outcome = "returned"
              /\ ret.log = NULL
        /\ ret.arg \in DOMAIN tasks
        /\ tasks[ret.arg] = ret.instance

\* C19 witness: a terminal save of a Task with an empty hook.
C19_Witness ==
    /\ Saved
    /\ ret.instance.hook = ""
    /\ ret.instance.status \in Terminal
    /\ ~ret.invoked
    /\ ~ret.resolving

\* C15: deleting a Task sets task = NULL on every Worker that references
\* it and deletes no Worker and no Cluster; deleting a Cluster deletes
\* exactly the Workers of that Cluster; no Worker ever references a Task or
\* a Cluster that does not exist.
C15_WorkerForeignKeys ==
    /\ \A w \in DOMAIN workers :
          /\ workers[w].cluster \in clusters
          /\ workers[w].task \in DOMAIN tasks \cup {NULL}
    /\ ret.op = "delete_task" =>
          /\ ret.arg \notin DOMAIN tasks
          /\ clusters = ret.clusters
          /\ DOMAIN workers = DOMAIN ret.workers
          /\ \A w \in DOMAIN workers :
                workers[w] =
                    IF ret.workers[w].task = ret.arg
                    THEN [ret.workers[w] EXCEPT !.task = NULL]
                    ELSE ret.workers[w]
    /\ ret.op = "delete_cluster" =>
          /\ ret.arg \notin clusters
          /\ tasks = ret.before
          /\ DOMAIN workers =
                {w \in DOMAIN ret.workers : ret.workers[w].cluster # ret.arg}
          /\ \A w \in DOMAIN workers : workers[w] = ret.workers[w]

\* C15 witness: a Task that a Worker was running has been deleted, the
\* Worker is still there with task NULL, and another Worker is untouched.
C15_Witness ==
    /\ ret.op = "delete_task"
    /\ \E w \in DOMAIN workers :
          /\ ret.workers[w].task = ret.arg
          /\ workers[w].task = NULL
    /\ \E w \in DOMAIN workers :
          /\ ret.workers[w].task \notin {ret.arg, NULL}
          /\ workers[w] = ret.workers[w]

\* Two pollers hold the same OrmQ row.
SameRow(p, q) ==
    /\ p # q
    /\ held[p] # None
    /\ held[q] # None
    /\ held[p].row = held[q].row

\* The claim times of two pollers lie within the reclaim timeout.
WithinTimeout(p, q) ==
    /\ held[p].at - held[q].at <= ReclaimTimeout
    /\ held[q].at - held[p].at <= ReclaimTimeout

\* C11: no two claim calls return the same OrmQ row while its lock is
\* fresh: two pollers hold the same row only when the later claim came
\* after the earlier lock had aged out, and a claimed row whose lock is
\* fresh has one owner at most.
C11_ClaimMutualExclusion ==
    /\ \A p, q \in Pollers : SameRow(p, q) => ~WithinTimeout(p, q)
    /\ \A p, q \in Pollers : ~(Owns(p) /\ Owns(q) /\ SameRow(p, q))
    /\ \A p \in Pollers :
          (held[p] # None /\ held[p].row \in DOMAIN ormq) =>
              ormq[held[p].row].lock >= held[p].at

\* C11 witness: the second poller polls the key of a row the first holds
\* under a fresh lock, and gets "empty".
C11_Witness ==
    /\ ret.op = "claim"
    /\ ret.value = 0
    /\ \E q \in Pollers :
          /\ q # ret.arg
          /\ Owns(q)
          /\ now - held[q].at <= ReclaimTimeout
          /\ \A r \in DOMAIN ormq : r = held[q].row

\* The lock of row r has aged out.
Stale(r) ==
    /\ r \in DOMAIN ormq
    /\ ormq[r].lock # NullTime
    /\ now - ormq[r].lock > ReclaimTimeout

\* C12: claim never returns a row whose lock is at most the timeout old,
\* each claim locks the row it returns "now" (one claim per reclaim
\* cycle), and under fair polling a row whose lock aged out is claimed
\* again (or removed).
C12_LockHidesRowUntilTimeout ==
    /\ [][\A p \in Pollers :
            (held'[p] # held[p] /\ held'[p] # None) =>
                /\ held'[p].row \in DOMAIN ormq
                /\ Eligible(ormq[held'[p].row])
                /\ ormq'[held'[p].row].lock = now
                /\ \A q \in Pollers \ {p} : held'[q] = held[q]]_vars
    /\ \A r \in 1..MaxRows :
          Stale(r) ~> (r \notin DOMAIN ormq \/ ~Stale(r))

\* C12 witness: a row whose lock had aged out has been claimed again, by a
\* second poller, while the first still holds it.
C12_Witness ==
    /\ ret.op = "claim"
    /\ ret.value # 0
    /\ held[ret.arg].at = now
    /\ \E q \in Pollers :
          /\ SameRow(ret.arg, q)
          /\ held[q].at < now - ReclaimTimeout

\* A Schedule of type minutes that was created with n > 0 repeats.
Counted(s) ==
    /\ s \in DOMAIN schedules
    /\ schedules[s].schedule_type = MINUTES
    /\ fires[s].repeats0 > 0

\* C13: a minutes Schedule with repeats = n > 0 fires exactly n times;
\* each firing takes 1 from repeats and adds `minutes` to next_run; at
\* repeats = 0 no check fires; repeats = -1 is never decremented and a due
\* check of it fires.
C13_MinutesScheduleFiresNTimes ==
    /\ [](\A s \in DOMAIN schedules :
            schedules[s].schedule_type = MINUTES =>
              /\ schedules[s].next_run =
                    fires[s].next_run0 + fires[s].count * schedules[s].minutes
              /\ fires[s].repeats0 >= 0 =>
                    /\ fires[s].count <= fires[s].repeats0
                    /\ schedules[s].repeats = fires[s].repeats0 - fires[s].count
              /\ fires[s].repeats0 = -1 => schedules[s].repeats = -1)
    /\ [][\A s \in DOMAIN schedules :
            /\ fires'[s].count # fires[s].count =>
                  /\ schedules[s].schedule_type = MINUTES
                  /\ now >= schedules[s].next_run
                  /\ schedules[s].repeats # 0
                  /\ fires'[s].count = fires[s].count + 1
                  /\ schedules'[s].next_run =
                        schedules[s].next_run + schedules[s].minutes
                  /\ schedules'[s].task \in DOMAIN tasks' \ DOMAIN tasks
                  /\ ormqSeq' \in DOMAIN ormq' \ DOMAIN ormq
            /\ (ret'.op = "check" /\ ret'.arg = s /\ ret' # ret) =>
                  (ret'.fired <=> (now >= schedules[s].next_run
                                   /\ schedules[s].repeats # 0))]_vars
    /\ \A s \in ScheduleIds :
          (Counted(s) /\ fires[s].next_run0
                           + (fires[s].repeats0 - 1) * schedules[s].minutes
                         <= MaxClock)
            ~> (Counted(s) /\ fires[s].count = fires[s].repeats0
                           /\ schedules[s].repeats = 0)

\* C13 witness: m = 15, n = 2, both firings done, and a third check at or
\* after next_run has produced no fire.
C13_Witness ==
    /\ ret.op = "check"
    /\ ~ret.fired
    /\ Counted(ret.arg)
    /\ schedules[ret.arg].minutes = 15
    /\ fires[ret.arg].repeats0 = 2
    /\ fires[ret.arg].count = 2
    /\ schedules[ret.arg].repeats = 0
    /\ schedules[ret.arg].next_run = fires[ret.arg].next_run0 + 30
    /\ now >= schedules[ret.arg].next_run

\* C16: validate_cron ends in a ValidationError for every expression the
\* cron parser rejects and returns for every one it accepts, and no stored
\* Schedule of type cron carries an expression the parser rejects.
C16_MalformedCronRejectedAtWrite ==
    /\ (ret.op = "write_cron" /\ ret.croniter) =>
          IF croniter_expand(ret.cron).outcome = "raised"
          THEN ret.validator = Raised("ValidationError")
          ELSE ret.validator.outcome = "returned"
    /\ \A s \in DOMAIN schedules :
          schedules[s].schedule_type = CRON =>
              croniter_expand(schedules[s].cron).outcome = "returned"

====
